---- MODULE Spec2Model ----
(***************************************************************************)
(* Chunked text-to-speech playback of src/App.tsx: the index-keyed audio   *)
(* cache, the table of in-flight synthesis requests, the playback          *)
(* scheduler (playAudioSequence / stopAudio / toggleAudioPlayback) and the *)
(* submission flow (processDream); and the text splitter splitTextForTTS   *)
(* of src/unnamed/part_001, which processDream calls on the analysis text. *)
(*                                                                         *)
(* Execution model: one event loop.  Every action below is one macrotask   *)
(* (a click, a network response, an audio event) together with all the     *)
(* promise continuations (microtasks) it triggers.  React state is taken   *)
(* to be re-rendered between two macrotasks, so a handler reads the        *)
(* current value of isPlayingAudio / isLoadingAudio / currentAudioIndex.   *)
(***************************************************************************)
EXTENDS Integers, Sequences, FiniteSets, TLC

\* ---- bounds of the exploration ----
MaxChunks == 3      \* largest number of segments a submission yields
MaxSubmits == 2     \* processDream invocations
MaxCalls == 3       \* generateDreamSpeech calls in flight at one time
MaxSources == 2     \* buffer sources alive at one time
MaxTasks == 2       \* playAudioSequence invocations suspended at an await
MaxText == 5        \* longest plain text handed to splitTextForTTS
MaxMarkup == 3      \* longest text with markdown handed to splitTextForTTS
MaxLimit == 7       \* largest limit handed to splitTextForTTS
SpeechLimit == 4    \* the length above which generateDreamSpeech cuts its
                    \* argument: the 800 of the source, scaled to the texts

VARIABLES
    status,               \* AppStatus of the component
    analysis,             \* TRUE iff the analysis state is non-null
    isPlayingAudio,
    isLoadingAudio,
    currentAudioIndex,
    playbackAudioCtx,     \* "none" | "suspended" | "running" | "closed"
    activeAudioSource,    \* 0 = null, -1 = a source whose ended event has
                          \* been dispatched, else a position in sources
    textChunks,           \* sequence of segment texts <<submission, index>>
    audioCacheMap,        \* index -> NoAudio or the audio stored for it
    pendingAudioRequests, \* index -> 0 (absent) or the in-flight request
    requests,             \* request id -> the generateDreamSpeech call in
                          \* flight under that id, or FreeSlot
    sources,              \* the buffer sources whose ended event is still to
                          \* come, in start order: st "playing" | "ending"
                          \* (ended event queued); halted iff stop() was
                          \* called on it
    waiters,              \* playAudioSequence suspended at await fetchAudioChunk
    resumers,             \* playAudioSequence suspended at await ctx.resume()
    submission,           \* number of processDream invocations so far
    played,               \* history: the segment indexes of the sources started
                          \* since the last click, in start order
    stoppedAt,            \* history: the cursor at the last toggle if it
                          \* stopped the scheduler while Playing and no text
                          \* was submitted since, else -1
    text,                 \* splitTextForTTS: its argument text, a sequence of
                          \* one-character strings
    limit,                \* splitTextForTTS: its argument limit
    ttsChunks,            \* splitTextForTTS: the value it returned
    returned,             \* TRUE iff splitTextForTTS has returned
    speech,               \* generateDreamSpeech: the position in ttsChunks of
                          \* its argument in the last call (0: never called)
                          \* and the text that call sent to the speech model
    mounted               \* FALSE once the cleanup of the mount effect ran

vars == <<status, analysis, isPlayingAudio, isLoadingAudio, currentAudioIndex,
          playbackAudioCtx, activeAudioSource, textChunks, audioCacheMap,
          pendingAudioRequests, requests, sources, waiters, resumers,
          submission, played, stoppedAt, text, limit, ttsChunks, returned,
          speech, mounted>>

splitVars == <<text, limit, ttsChunks, returned, speech>>

audioVars == <<status, analysis, isPlayingAudio, isLoadingAudio,
               currentAudioIndex, playbackAudioCtx, activeAudioSource,
               textChunks, audioCacheMap, pendingAudioRequests, requests,
               sources, waiters, resumers, submission, played, stoppedAt,
               mounted>>

Indexes == 0 .. (MaxChunks - 1)

RequestIds == 1 .. MaxCalls

\* audio data: the text it was synthesized from and the call that made it
NoAudio == [text |-> <<0, 0>>, id |-> 0]

FreeSlot == [text |-> <<0, 0>>, index |-> 0, st |-> "free"]

EmptyCache == [i \in Indexes |-> NoAudio]

EmptyPending == [i \in Indexes |-> 0]

HasAudio(map, i) == i \in DOMAIN map /\ map[i] # NoAudio

HasPending(map, i) == i \in DOMAIN map /\ map[i] # 0

\* The mutable state the audio helpers read and write, threaded through them.
\* over: a helper needed more requests in flight than MaxCalls.
Heap ==
    [playing |-> isPlayingAudio, loading |-> isLoadingAudio,
     cursor |-> currentAudioIndex, ctx |-> playbackAudioCtx,
     active |-> activeAudioSource, chunks |-> textChunks,
     cache |-> audioCacheMap, pending |-> pendingAudioRequests,
     requests |-> requests, sources |-> sources,
     waiters |-> waiters, resumers |-> resumers, played |-> played,
     over |-> FALSE]

Commit(h) ==
    /\ ~h.over
    /\ Len(h.sources) <= MaxSources
    /\ Len(h.waiters) + Len(h.resumers) <= MaxTasks
    /\ isPlayingAudio' = h.playing
    /\ isLoadingAudio' = h.loading
    /\ currentAudioIndex' = h.cursor
    /\ playbackAudioCtx' = h.ctx
    /\ activeAudioSource' = h.active
    /\ textChunks' = h.chunks
    /\ audioCacheMap' = h.cache
    /\ pendingAudioRequests' = h.pending
    /\ requests' = h.requests
    /\ sources' = h.sources
    /\ waiters' = h.waiters
    /\ resumers' = h.resumers
    /\ played' = h.played

\* step 4 of fetchAudioChunk: the call of generateDreamSpeech
IssueRequest(h, index) ==
    LET free == {id \in RequestIds : h.requests[id].st = "free"}
    IN IF free = {}
       THEN [h |-> [h EXCEPT !.over = TRUE], kind |-> "promise", val |-> 0]
       ELSE LET id == CHOOSE x \in free : \A y \in free : x <= y
                call == [text |-> h.chunks[index + 1], index |-> index,
                         st |-> "pending"]
            IN [h |-> [h EXCEPT !.requests = [@ EXCEPT ![id] = call],
                                !.pending = [@ EXCEPT ![index] = id]],
                kind |-> "promise", val |-> id]

\* fetchAudioChunk without the cache lookup of step 1
FetchAudioChunk_NoCacheLookup(h, index) ==
    IF HasPending(h.pending, index)
    THEN [h |-> h, kind |-> "promise", val |-> h.pending[index]]
    ELSE IF index >= Len(h.chunks)
    THEN [h |-> h, kind |-> "throw", val |-> 0]
    ELSE IssueRequest(h, index)

\* ---- fetchAudioChunk: what the call does before it returns ----
\* kind "data": settles with cached audio val; "promise": settles when
\* request val does; "throw": rejects at once.
FetchAudioChunk(h, index) ==
    IF HasAudio(h.cache, index)
    THEN [h |-> h, kind |-> "data", val |-> h.cache[index]]
    ELSE IF HasPending(h.pending, index)
    THEN [h |-> h, kind |-> "promise", val |-> h.pending[index]]
    ELSE IF index >= Len(h.chunks)
    THEN [h |-> h, kind |-> "throw", val |-> 0]
    ELSE IssueRequest(h, index)

\* ---- stopAudio ----
StopSource(src) ==
    [src EXCEPT !.st = "ending", !.halted = TRUE]

\* stopAudio that also forgets the requests in flight
StopAudio_DropsPending(h) ==
    LET h1 == IF h.active > 0
              THEN [h EXCEPT !.sources = [@ EXCEPT ![h.active] = StopSource(@)],
                             !.active = 0]
              ELSE [h EXCEPT !.active = 0]
    IN [h1 EXCEPT !.playing = FALSE, !.loading = FALSE,
                  !.pending = EmptyPending]

\* stopAudio that clears the handle only of a source it could stop
StopAudio_KeepsEndedHandle(h) ==
    LET h1 == IF h.active > 0
              THEN [h EXCEPT !.sources = [@ EXCEPT ![h.active] = StopSource(@)],
                             !.active = 0]
              ELSE h
    IN [h1 EXCEPT !.playing = FALSE, !.loading = FALSE]

StopAudio(h) ==
    LET h1 == IF h.active > 0
              THEN [h EXCEPT !.sources = [@ EXCEPT ![h.active] = StopSource(@)],
                             !.active = 0]
              ELSE [h EXCEPT !.active = 0]
    IN [h1 EXCEPT !.playing = FALSE, !.loading = FALSE]

\* playAudioSequence past the await of fetchAudioChunk, without the prefetch
PlayContinue_NoPrefetch(h, startIndex, audio) ==
    LET source == [index |-> startIndex, audio |-> audio, st |-> "playing",
                   halted |-> FALSE]
    IN [h EXCEPT !.sources = Append(@, source),
                 !.played = Append(@, startIndex),
                 !.active = Len(h.sources) + 1,
                 !.loading = FALSE,
                 !.playing = TRUE]

\* ---- playAudioSequence, from the end of the await of fetchAudioChunk ----
PlayContinue(h, startIndex, audio) ==
    LET h1 == IF startIndex + 1 < Len(h.chunks)
              THEN FetchAudioChunk(h, startIndex + 1).h
              ELSE h
        source == [index |-> startIndex, audio |-> audio, st |-> "playing",
                   halted |-> FALSE]
    IN [h1 EXCEPT !.sources = Append(@, source),
                  !.played = Append(@, startIndex),
                  !.active = Len(h1.sources) + 1,
                  !.loading = FALSE,
                  !.playing = TRUE]

\* catch block that leaves isLoadingAudio set
PlayCatch_KeepsLoading(h) == [h EXCEPT !.playing = FALSE]

\* ---- playAudioSequence, catch block ----
PlayCatch(h) == [h EXCEPT !.loading = FALSE, !.playing = FALSE]

\* ---- playAudioSequence, from the call of fetchAudioChunk ----
PlayFetch(h, startIndex) ==
    LET f == FetchAudioChunk(h, startIndex)
    IN CASE f.kind = "data" -> PlayContinue(f.h, startIndex, f.val)
         [] f.kind = "promise" ->
                [f.h EXCEPT !.waiters =
                     Append(@, [index |-> startIndex, req |-> f.val])]
         [] OTHER -> PlayCatch(f.h)

\* playAudioSequence that leaves the cursor where it is at the end of the list
PlayAudioSequence_NoRewind(h, startIndex, fresh) ==
    IF startIndex >= Len(h.chunks)
    THEN [h EXCEPT !.playing = FALSE]
    ELSE LET h1 == [h EXCEPT !.loading = TRUE,
                             !.cursor = startIndex,
                             !.ctx = IF @ \in {"none", "closed"}
                                      THEN fresh
                                      ELSE @]
         IN IF h1.ctx = "failed"
            THEN PlayCatch([h1 EXCEPT !.ctx = h.ctx])
            ELSE IF h1.ctx = "suspended"
            THEN [h1 EXCEPT !.resumers = Append(@, startIndex)]
            ELSE PlayFetch(h1, startIndex)

\* playAudioSequence that starts over at segment 0 when called past the end
\* of a non-empty list
PlayAudioSequence_Restart(h, startIndex, fresh) ==
    IF Len(h.chunks) = 0
    THEN [h EXCEPT !.playing = FALSE, !.cursor = 0]
    ELSE LET k == IF startIndex >= Len(h.chunks) THEN 0 ELSE startIndex
             h1 == [h EXCEPT !.loading = TRUE,
                             !.cursor = k,
                             !.ctx = IF @ \in {"none", "closed"}
                                      THEN fresh
                                      ELSE @]
         IN IF h1.ctx = "failed"
            THEN PlayCatch([h1 EXCEPT !.ctx = h.ctx])
            ELSE IF h1.ctx = "suspended"
            THEN [h1 EXCEPT !.resumers = Append(@, k)]
            ELSE PlayFetch(h1, k)

\* ---- playAudioSequence, from its call ----
\* fresh: the state a newly constructed AudioContext reports, or "failed"
\* when the constructor throws (the reference then stays as it was and the
\* catch handler runs).
PlayAudioSequence(h, startIndex, fresh) ==
    IF startIndex >= Len(h.chunks)
    THEN [h EXCEPT !.playing = FALSE, !.cursor = 0]
    ELSE LET h1 == [h EXCEPT !.loading = TRUE,
                             !.cursor = startIndex,
                             !.ctx = IF @ \in {"none", "closed"}
                                      THEN fresh
                                      ELSE @]
         IN IF h1.ctx = "failed"
            THEN PlayCatch([h1 EXCEPT !.ctx = h.ctx])
            ELSE IF h1.ctx = "suspended"
            THEN [h1 EXCEPT !.resumers = Append(@, startIndex)]
            ELSE PlayFetch(h1, startIndex)

\* Continuations of the playAudioSequence invocations awaiting request r,
\* in the order in which they started to wait.
RECURSIVE RunWaiters(_, _, _, _)
RunWaiters(h, ws, r, ok) ==
    IF ws = <<>> THEN h
    ELSE LET w == Head(ws)
             data == [text |-> h.requests[r].text, id |-> r]
         IN IF w.req # r
            THEN RunWaiters(h, Tail(ws), r, ok)
            ELSE RunWaiters(IF ok THEN PlayContinue(h, w.index, data)
                                  ELSE PlayCatch(h),
                            Tail(ws), r, ok)

\* continuations that go on to fetch the segment although ctx.resume()
\* rejected
RECURSIVE RunResumers_IgnoresFailure(_, _, _)
RunResumers_IgnoresFailure(h, rs, ok) ==
    IF rs = <<>> THEN h
    ELSE RunResumers_IgnoresFailure(PlayFetch(h, Head(rs)), Tail(rs), ok)

\* Continuations of the invocations awaiting ctx.resume().
RECURSIVE RunResumers(_, _, _)
RunResumers(h, rs, ok) ==
    IF rs = <<>> THEN h
    ELSE RunResumers(IF ok THEN PlayFetch(h, Head(rs)) ELSE PlayCatch(h),
                     Tail(rs), ok)

\* settlement whose catch handler leaves the pending entry in place
SettleRequest_KeepFailedPending(h, r, ok) ==
    LET index == h.requests[r].index
        data == [text |-> h.requests[r].text, id |-> r]
        h1 == [h EXCEPT !.requests = [@ EXCEPT ![r].st = "settled"],
                        !.cache = IF ok THEN [@ EXCEPT ![index] = data] ELSE @,
                        !.pending = IF ok THEN [@ EXCEPT ![index] = 0] ELSE @,
                        !.waiters = SelectSeq(@, LAMBDA w : w.req # r)]
    IN [RunWaiters(h1, h.waiters, r, ok) EXCEPT
            !.requests = [@ EXCEPT ![r] = FreeSlot]]

\* settlement that does not reject the promise the callers await: on
\* failure their continuations never run
SettleRequest_SilentFailure(h, r, ok) ==
    LET index == h.requests[r].index
        data == [text |-> h.requests[r].text, id |-> r]
        h1 == [h EXCEPT !.requests = [@ EXCEPT ![r].st = "settled"],
                        !.cache = IF ok THEN [@ EXCEPT ![index] = data] ELSE @,
                        !.pending = [@ EXCEPT ![index] = 0],
                        !.waiters = SelectSeq(@, LAMBDA w : w.req # r)]
    IN [(IF ok THEN RunWaiters(h1, h.waiters, r, ok) ELSE h1) EXCEPT
            !.requests = [@ EXCEPT ![r] = FreeSlot]]

\* settlement whose then handler leaves the pending entry in place
SettleRequest_KeepPendingOnSuccess(h, r, ok) ==
    LET index == h.requests[r].index
        data == [text |-> h.requests[r].text, id |-> r]
        h1 == [h EXCEPT !.requests = [@ EXCEPT ![r].st = "settled"],
                        !.cache = IF ok THEN [@ EXCEPT ![index] = data] ELSE @,
                        !.pending = IF ok THEN @ ELSE [@ EXCEPT ![index] = 0],
                        !.waiters = SelectSeq(@, LAMBDA w : w.req # r)]
    IN [RunWaiters(h1, h.waiters, r, ok) EXCEPT
            !.requests = [@ EXCEPT ![r] = FreeSlot]]

\* ---- settlement of a generateDreamSpeech call (.then / .catch) ----
\* The id of the call is free again once its continuations have run.
\* settlement whose catch handler requests the failed segment once more
SettleRequest_RetriesOnFailure(h, r, ok) ==
    LET index == h.requests[r].index
        data == [text |-> h.requests[r].text, id |-> r]
        h1 == [h EXCEPT !.requests = [@ EXCEPT ![r].st = "settled"],
                        !.cache = IF ok THEN [@ EXCEPT ![index] = data] ELSE @,
                        !.pending = [@ EXCEPT ![index] = 0],
                        !.waiters = SelectSeq(@, LAMBDA w : w.req # r)]
        h2 == RunWaiters(h1, h.waiters, r, ok)
        h3 == IF ~ok /\ index < Len(h2.chunks)
              THEN FetchAudioChunk(h2, index).h
              ELSE h2
    IN [h3 EXCEPT !.requests = [@ EXCEPT ![r] = FreeSlot]]

SettleRequest(h, r, ok) ==
    LET index == h.requests[r].index
        data == [text |-> h.requests[r].text, id |-> r]
        h1 == [h EXCEPT !.requests = [@ EXCEPT ![r].st = "settled"],
                        !.cache = IF ok THEN [@ EXCEPT ![index] = data] ELSE @,
                        !.pending = [@ EXCEPT ![index] = 0],
                        !.waiters = SelectSeq(@, LAMBDA w : w.req # r)]
    IN [RunWaiters(h1, h.waiters, r, ok) EXCEPT
            !.requests = [@ EXCEPT ![r] = FreeSlot]]

\* sequence q without its element at position s
RemoveAt(q, s) == SubSeq(q, 1, s - 1) \o SubSeq(q, s + 1, Len(q))

\* the source at position s leaves sources once its ended event is dispatched
Forget(h, s) ==
    [h EXCEPT !.sources = RemoveAt(@, s),
              !.active = IF @ = s THEN -1 ELSE IF @ > s THEN @ - 1 ELSE @]

\* source.onended without the comparison with activeAudioSourceRef
OnEnded_NoHandleCheck(h, s, fresh) ==
    PlayAudioSequence(Forget(h, s), h.sources[s].index + 1, fresh)

\* ---- source.onended ----
OnEnded(h, s, fresh) ==
    IF h.active = s
    THEN PlayAudioSequence(Forget(h, s), h.sources[s].index + 1, fresh)
    ELSE Forget(h, s)

\* toggleAudioPlayback that stops only what is already playing
Toggle_StopOnlyPlaying(h, fresh) ==
    IF h.playing
    THEN StopAudio(h)
    ELSE PlayAudioSequence(h, IF h.cursor >= Len(h.chunks) THEN 0
                              ELSE h.cursor, fresh)

\* ---- toggleAudioPlayback, past its first guard ----
Toggle(h, fresh) ==
    IF h.playing \/ h.loading
    THEN StopAudio(h)
    ELSE PlayAudioSequence(h, IF h.cursor >= Len(h.chunks) THEN 0
                              ELSE h.cursor, fresh)

\* toggleAudioPlayback without its early return
ToggleReturnsEarly_Never(an, chunks) == FALSE

\* ---- toggleAudioPlayback: the test of its first line ----
\* an: the analysis state is non-null
ToggleReturnsEarly(an, chunks) == ~an \/ Len(chunks) = 0

\* processDream that leaves the cursor where it is
ResetAudio_KeepsCursor(h) ==
    [StopAudio(h) EXCEPT !.cache = EmptyCache, !.pending = EmptyPending,
                         !.chunks = <<>>]

\* ---- processDream, up to the await of analyzeDreamText ----
ResetAudio(h) ==
    [StopAudio(h) EXCEPT !.cache = EmptyCache, !.pending = EmptyPending,
                         !.chunks = <<>>, !.cursor = 0]

\* splitTextForTTS result, as the texts of n segments of submission sub
Chunks(sub, n) == [i \in 1 .. n |-> <<sub, i - 1>>]

\* ---- processDream, from the result of analyzeDreamText ----
WarmUp(h, chunks) ==
    LET h1 == [h EXCEPT !.chunks = chunks]
    IN IF Len(chunks) > 0 THEN FetchAudioChunk(h1, 0).h ELSE h1

FreshStates == {"running", "suspended"}

\* ======================= splitTextForTTS =======================
\* A text is a sequence of characters, each a one-character string.

WhiteSpace == {" ", "\t", "\n", "\r"}        \* what \s matches and trim removes
LineTerminators == {"\n", "\r"}             \* what . does not match; ^ follows one
Terminators == {".", "!", "?"}              \* [.!?]
Quotes == {"\"", "'"}                       \* ["']
Backtick == "grave"                         \* stands for the character `
MarkChars == {"*", "_", "~", Backtick}      \* [*_~`]
BulletChars == {"-", "+", "*"}              \* [-+*]

\* the least position at or after p of t that holds no character of S
RECURSIVE Skip(_, _, _)
Skip(t, p, S) == IF p <= Len(t) /\ t[p] \in S THEN Skip(t, p + 1, S) ELSE p

\* the least position at or after p of t that holds a character of S
RECURSIVE Find(_, _, _)
Find(t, p, S) == IF p <= Len(t) /\ t[p] \notin S THEN Find(t, p + 1, S) ELSE p

\* both are Len(t) + 1 when there is no such position

From(t, p) == SubSeq(t, p, Len(t))

\* String.prototype.trim
Trim(t) ==
    LET a == Skip(t, 1, WhiteSpace)
    IN IF a > Len(t) THEN <<>>
       ELSE LET b == CHOOSE i \in a .. Len(t) :
                        /\ t[i] \notin WhiteSpace
                        /\ \A j \in (i + 1) .. Len(t) : t[j] \in WhiteSpace
            IN SubSeq(t, a, b)

\* .replace(/[*_~`]/g, '')
StripMarks(t) == SelectSeq(t, LAMBDA c : c \notin MarkChars)

\* .replace(/\[.*?\]/g, ''): from a "[" to the first "]" after it, provided
\* no line terminator lies between
RECURSIVE StripLinks(_)
StripLinks(t) ==
    IF t = <<>> THEN <<>>
    ELSE LET close == Find(t, 2, {"]"} \cup LineTerminators)
         IN IF Head(t) = "[" /\ close <= Len(t) /\ t[close] = "]"
            THEN StripLinks(From(t, close + 1))
            ELSE <<Head(t)>> \o StripLinks(Tail(t))

\* .replace(/^\s*[-+*]\s+/gm, ''), scanning t from position p: at the start
\* of a line, a run of white space, a bullet character and the white space
\* after it (at least one character)
RECURSIVE StripBulletsFrom(_, _)
StripBulletsFrom(t, p) ==
    IF p > Len(t) THEN <<>>
    ELSE LET q == Skip(t, p, WhiteSpace)
             atStart == p = 1 \/ t[p - 1] \in LineTerminators
         IN IF /\ atStart
               /\ q + 1 <= Len(t)
               /\ t[q] \in BulletChars
               /\ t[q + 1] \in WhiteSpace
            THEN StripBulletsFrom(t, Skip(t, q + 1, WhiteSpace))
            ELSE <<t[p]>> \o StripBulletsFrom(t, p + 1)

StripBullets(t) == StripBulletsFrom(t, 1)

\* .replace(/#{1,6}\s+/g, ''): one to six "#" and the white space after them
\* (at least one character)
RECURSIVE StripHeadings(_)
StripHeadings(t) ==
    IF t = <<>> THEN <<>>
    ELSE LET q == Skip(t, 1, {"#"})
         IN IF q > 1 /\ q - 1 <= 6 /\ q <= Len(t) /\ t[q] \in WhiteSpace
            THEN StripHeadings(From(t, Skip(t, q, WhiteSpace)))
            ELSE <<Head(t)>> \o StripHeadings(Tail(t))

CleanTextForTTS(t) ==
    Trim(StripHeadings(StripBullets(StripLinks(StripMarks(t)))))

\* clean.match(/[^.!?]+[.!?]+["']?|.+$/g), scanning t from position p.
\* First alternative: at least one character that is no terminator, the run
\* of terminators after them and one quote if it follows.  Second
\* alternative: the rest of the text if it holds no line terminator.  Where
\* neither matches the scan moves on by one character.
RECURSIVE MatchSentences(_, _)
MatchSentences(t, p) ==
    IF p > Len(t) THEN <<>>
    ELSE LET q == Find(t, p, Terminators)
             r == Skip(t, q, Terminators)
             e == IF r <= Len(t) /\ t[r] \in Quotes THEN r + 1 ELSE r
         IN IF q > p /\ q <= Len(t)
            THEN <<SubSeq(t, p, e - 1)>> \o MatchSentences(t, e)
            ELSE IF Find(t, p, LineTerminators) > Len(t)
            THEN <<From(t, p)>>
            ELSE MatchSentences(t, p + 1)

\* clean.match(...) || [clean]
Sentences(clean) ==
    IF MatchSentences(clean, 1) = <<>> THEN <<clean>>
    ELSE MatchSentences(clean, 1)

\* chunks.push(currentChunk.trim()) without the test around it
PushChunk_Always(done, currentChunk) == Append(done, Trim(currentChunk))

\* chunks.push(currentChunk.trim()) under if (currentChunk.trim())
PushChunk(done, currentChunk) ==
    IF Trim(currentChunk) # <<>> THEN Append(done, Trim(currentChunk)) ELSE done

\* the loop with the length test made on the current chunk alone
RECURSIVE Accumulate_TestsChunkOnly(_, _, _, _, _)
Accumulate_TestsChunkOnly(sentences, k, done, currentChunk, lim) ==
    IF k > Len(sentences) THEN PushChunk(done, currentChunk)
    ELSE IF Len(currentChunk) <= lim
    THEN Accumulate_TestsChunkOnly(sentences, k + 1, done,
                                   currentChunk \o sentences[k] \o <<" ">>, lim)
    ELSE Accumulate_TestsChunkOnly(sentences, k + 1,
                                   PushChunk(done, currentChunk),
                                   sentences[k] \o <<" ">>, lim)

\* the loop that closes the current chunk at every sentence
RECURSIVE Accumulate_ClosesEachSentence(_, _, _, _, _)
Accumulate_ClosesEachSentence(sentences, k, done, currentChunk, lim) ==
    IF k > Len(sentences) THEN PushChunk(done, currentChunk)
    ELSE Accumulate_ClosesEachSentence(sentences, k + 1,
                                       PushChunk(done, currentChunk),
                                       sentences[k] \o <<" ">>, lim)

\* the loop over sentences from the k-th on, and the push after it
RECURSIVE Accumulate(_, _, _, _, _)
Accumulate(sentences, k, done, currentChunk, lim) ==
    IF k > Len(sentences) THEN PushChunk(done, currentChunk)
    ELSE IF Len(currentChunk \o sentences[k]) <= lim
    THEN Accumulate(sentences, k + 1, done,
                    currentChunk \o sentences[k] \o <<" ">>, lim)
    ELSE Accumulate(sentences, k + 1, PushChunk(done, currentChunk),
                    sentences[k] \o <<" ">>, lim)

SplitTextForTTS(t, lim) ==
    Accumulate(Sentences(CleanTextForTTS(t)), 1, <<>>, <<>>, lim)

\* the texts and limits splitTextForTTS is applied to
CoreAlphabet == {"a", " ", ".", "\n", "'"}

MarkupAlphabet == CoreAlphabet \cup {"*", "[", "]", "-", "#"}

TextsOver(S, n) == UNION {[1 .. k -> S] : k \in 0 .. n}

Texts == TextsOver(CoreAlphabet, MaxText) \cup TextsOver(MarkupAlphabet, MaxMarkup)

Limits == 1 .. MaxLimit

\* ---- generateDreamSpeech: the text it sends ----
\* generateDreamSpeech that sends its argument whole
SafeText_Whole(textChunk) == textChunk

\* const safeText = textChunk.length > 800 ? textChunk.substring(0, 800)
\*                                          : textChunk,
\* with SpeechLimit for 800
SafeText(textChunk) ==
    IF Len(textChunk) > SpeechLimit
    THEN SubSeq(textChunk, 1, SpeechLimit)
    ELSE textChunk

\* no call of generateDreamSpeech has been made
NoSpeech == [chunk |-> 0, safeText |-> <<>>]

\* ======================= actions =======================

AudioInit ==
    /\ status = "IDLE"
    /\ analysis = FALSE
    /\ isPlayingAudio = FALSE
    /\ isLoadingAudio = FALSE
    /\ currentAudioIndex = 0
    /\ playbackAudioCtx = "none"
    /\ activeAudioSource = 0
    /\ textChunks = <<>>
    /\ audioCacheMap = EmptyCache
    /\ pendingAudioRequests = EmptyPending
    /\ requests = [id \in RequestIds |-> FreeSlot]
    /\ sources = <<>>
    /\ waiters = <<>>
    /\ resumers = <<>>
    /\ submission = 0
    /\ played = <<>>
    /\ stoppedAt = -1
    /\ mounted = TRUE

\* no text has been handed to splitTextForTTS
Init ==
    /\ AudioInit
    /\ text = <<>>
    /\ limit = MaxLimit
    /\ ttsChunks = <<>>
    /\ returned = FALSE
    /\ speech = NoSpeech

\* click on the submit button (enabled outside ANALYZING / GENERATING_IMAGE)
ProcessDream ==
    /\ mounted
    /\ status \notin {"ANALYZING", "GENERATING_IMAGE"}
    /\ submission < MaxSubmits
    /\ status' = "ANALYZING"
    /\ analysis' = FALSE
    /\ submission' = submission + 1
    /\ stoppedAt' = -1
    /\ Commit([ResetAudio(Heap) EXCEPT !.played = <<>>])
    /\ UNCHANGED <<mounted, splitVars>>

\* analyzeDreamText resolved; n segments come out of splitTextForTTS
AnalysisDone(n) ==
    /\ status = "ANALYZING"
    /\ analysis' = TRUE
    /\ status' = "GENERATING_IMAGE"
    /\ Commit(WarmUp(Heap, Chunks(submission, n)))
    /\ UNCHANGED <<submission, stoppedAt, mounted, splitVars>>

\* analyzeDreamText rejected
AnalysisFailed ==
    /\ status = "ANALYZING"
    /\ status' = "IDLE"
    /\ UNCHANGED <<analysis, isPlayingAudio, isLoadingAudio, currentAudioIndex,
                   playbackAudioCtx, activeAudioSource, textChunks,
                   audioCacheMap, pendingAudioRequests, requests, sources,
                   waiters, resumers, submission, played, stoppedAt, mounted,
                   splitVars>>

\* generateDreamImage settled (its failure is swallowed)
ImageDone ==
    /\ status = "GENERATING_IMAGE"
    /\ status' = "COMPLETE"
    /\ UNCHANGED <<analysis, isPlayingAudio, isLoadingAudio, currentAudioIndex,
                   playbackAudioCtx, activeAudioSource, textChunks,
                   audioCacheMap, pendingAudioRequests, requests, sources,
                   waiters, resumers, submission, played, stoppedAt, mounted,
                   splitVars>>

\* click on the play / pause button
\* (the handler returns at once without an analysis or without segments)
ToggleAudioPlayback(fresh) ==
    /\ mounted
    /\ IF ToggleReturnsEarly(analysis, textChunks)
       THEN UNCHANGED vars
       ELSE /\ Commit(Toggle([Heap EXCEPT !.played = <<>>], fresh))
            /\ stoppedAt' = IF isPlayingAudio /\ ~isLoadingAudio
                            THEN currentAudioIndex
                            ELSE -1
            /\ UNCHANGED <<status, analysis, submission, mounted, splitVars>>

\* the play button is pressed while nothing plays and no context exists,
\* and the AudioContext constructor throws
ContextCreationFails ==
    /\ ~isPlayingAudio
    /\ ~isLoadingAudio
    /\ playbackAudioCtx = "none"
    /\ ToggleAudioPlayback("failed")

\* the component is unmounted: the cleanup of the mount effect calls
\* stopAudio and closes the context if there is one
Unmount ==
    /\ mounted
    /\ mounted' = FALSE
    /\ Commit([StopAudio(Heap) EXCEPT
                  !.ctx = IF @ = "none" THEN @ ELSE "closed"])
    /\ UNCHANGED <<status, analysis, submission, stoppedAt, splitVars>>

\* the remote synthesis of request r succeeds (ok) or fails
RequestSettles(r, ok) ==
    /\ r \in RequestIds
    /\ requests[r].st = "pending"
    /\ Commit(SettleRequest(Heap, r, ok))
    /\ UNCHANGED <<status, analysis, submission, stoppedAt, mounted,
                   splitVars>>

\* the pending ctx.resume() promises settle together; those of a closed
\* context are rejected
ResumeSettles(ok) ==
    /\ resumers # <<>>
    /\ ok => playbackAudioCtx = "suspended"
    /\ Commit(RunResumers([Heap EXCEPT !.resumers = <<>>,
                                       !.ctx = IF ok THEN "running" ELSE @],
                          resumers, ok))
    /\ UNCHANGED <<status, analysis, submission, stoppedAt, mounted,
                   splitVars>>

\* source s reaches the end of its buffer; its ended event is queued.
\* Of the sources playing one and the same buffer, the one started first
\* reaches the end first. A closed context renders nothing.
SourceFinishes(s) ==
    /\ playbackAudioCtx # "closed"
    /\ s \in 1 .. Len(sources)
    /\ sources[s].st = "playing"
    /\ \A t \in 1 .. (s - 1) :
          ~(sources[t].st = "playing" /\ sources[t].audio = sources[s].audio)
    /\ sources' = [sources EXCEPT ![s].st = "ending"]
    /\ UNCHANGED <<status, analysis, isPlayingAudio, isLoadingAudio,
                   currentAudioIndex, playbackAudioCtx, activeAudioSource,
                   textChunks, audioCacheMap, pendingAudioRequests, requests,
                   waiters, resumers, submission, played, stoppedAt, mounted,
                   splitVars>>

\* the ended event of source s (ended naturally or stopped) is dispatched
SourceEnded(s, fresh) ==
    /\ s \in 1 .. Len(sources)
    /\ sources[s].st = "ending"
    /\ Commit(OnEnded(Heap, s, fresh))
    /\ UNCHANGED <<status, analysis, submission, stoppedAt, mounted,
                   splitVars>>

Next ==
    \/ ProcessDream
    \/ \E n \in 0 .. MaxChunks : AnalysisDone(n)
    \/ AnalysisFailed
    \/ ImageDone
    \/ \E fresh \in FreshStates : ToggleAudioPlayback(fresh)
    \/ ContextCreationFails
    \/ Unmount
    \/ \E r \in RequestIds, ok \in BOOLEAN : RequestSettles(r, ok)
    \/ \E ok \in BOOLEAN : ResumeSettles(ok)
    \/ \E s \in 1 .. MaxSources : SourceFinishes(s)
    \/ \E s \in 1 .. MaxSources, fresh \in FreshStates : SourceEnded(s, fresh)

Spec == Init /\ [][Next]_vars

TypeOK ==
    /\ status \in {"IDLE", "ANALYZING", "GENERATING_IMAGE", "COMPLETE"}
    /\ analysis \in BOOLEAN
    /\ isPlayingAudio \in BOOLEAN
    /\ isLoadingAudio \in BOOLEAN
    /\ currentAudioIndex \in 0 .. MaxChunks
    /\ playbackAudioCtx \in {"none", "suspended", "running", "closed"}
    /\ mounted \in BOOLEAN
    /\ activeAudioSource \in -1 .. Len(sources)
    /\ submission \in 0 .. MaxSubmits
    /\ played \in Seq(Indexes)
    /\ stoppedAt \in -1 .. MaxChunks
    /\ text \in Seq(MarkupAlphabet)
    /\ limit \in Limits
    /\ ttsChunks \in Seq(Seq(MarkupAlphabet))
    /\ returned \in BOOLEAN
    /\ speech.chunk \in 0 .. Len(ttsChunks)
    /\ speech.safeText \in Seq(MarkupAlphabet)

\* ---- one submission played from start to end without interference ----
\* every synthesis and every resume succeeds, the play button is clicked
\* once, and nothing is submitted once a submission has yielded segments

FullSubmit == textChunks = <<>> /\ ProcessDream

FullAnalysis == \E n \in 0 .. MaxChunks : AnalysisDone(n)

FullStart ==
    /\ ~isLoadingAudio /\ ~isPlayingAudio /\ activeAudioSource = 0
    /\ \E fresh \in FreshStates : ToggleAudioPlayback(fresh)

FullSettle == \E r \in RequestIds : RequestSettles(r, TRUE)

FullResume == ResumeSettles(TRUE)

FullFinish == \E s \in 1 .. MaxSources : SourceFinishes(s)

FullEnded == \E s \in 1 .. MaxSources, fresh \in FreshStates : SourceEnded(s, fresh)

NextFull ==
    \/ FullSubmit
    \/ FullAnalysis
    \/ AnalysisFailed
    \/ ImageDone
    \/ FullStart
    \/ FullSettle
    \/ FullResume
    \/ FullFinish
    \/ FullEnded

SpecFull == Init /\ [][NextFull]_vars

\* ---- one submitted text ----
\* the scheduler under every order of clicks on the play button, synthesis
\* outcomes and source events, the text being submitted once

SingleSubmit == submission = 0 /\ ProcessDream

NextSingle ==
    \/ SingleSubmit
    \/ \E n \in 0 .. MaxChunks : AnalysisDone(n)
    \/ AnalysisFailed
    \/ ImageDone
    \/ \E fresh \in FreshStates : ToggleAudioPlayback(fresh)
    \/ ContextCreationFails
    \/ Unmount
    \/ \E r \in RequestIds, ok \in BOOLEAN : RequestSettles(r, ok)
    \/ \E ok \in BOOLEAN : ResumeSettles(ok)
    \/ \E s \in 1 .. MaxSources : SourceFinishes(s)
    \/ \E s \in 1 .. MaxSources, fresh \in FreshStates : SourceEnded(s, fresh)

SpecSingle == Init /\ [][NextSingle]_vars

\* ---- one text submitted over another ----
\* a second text is submitted at any moment of the uninterrupted playback of
\* the first (or before it is played), and is then played the same way

Resubmit == submission <= 1 /\ ProcessDream

NextResubmit ==
    \/ Resubmit
    \/ FullAnalysis
    \/ AnalysisFailed
    \/ ImageDone
    \/ FullStart
    \/ FullSettle
    \/ FullResume
    \/ FullFinish
    \/ FullEnded

SpecResubmit == Init /\ [][NextResubmit]_vars

\* ---- splitTextForTTS on its own ----
\* the function applied once to every text of Texts under every limit of
\* Limits

InitSplit ==
    /\ AudioInit
    /\ text \in Texts
    /\ limit \in Limits
    /\ ttsChunks = <<>>
    /\ returned = FALSE
    /\ speech = NoSpeech

SplitCall ==
    /\ ~returned
    /\ ttsChunks' = SplitTextForTTS(text, limit)
    /\ returned' = TRUE
    /\ UNCHANGED <<text, limit, speech, audioVars>>

\* generateDreamSpeech is called with the i-th segment
SpeechCall(i) ==
    /\ returned
    /\ i \in 1 .. Len(ttsChunks)
    /\ speech' = [chunk |-> i, safeText |-> SafeText(ttsChunks[i])]
    /\ UNCHANGED <<text, limit, ttsChunks, returned, audioVars>>

NextSplit ==
    \/ SplitCall
    \/ \E i \in 1 .. MaxText : SpeechCall(i)

SpecSplit == InitSplit /\ [][NextSplit]_vars

\* ======================= properties =======================

\* the synthesis requests for segment i of the current submission that have
\* not settled yet
Outstanding(i) ==
    {r \in RequestIds :
        requests[r].st = "pending" /\ requests[r].text = <<submission, i>>}

\* the ids of the requests issued by the step
NewCalls ==
    {r \in RequestIds : requests[r].st = "free" /\ requests'[r].st = "pending"}

\* the playAudioSequence invocations awaiting audio of segment i of the
\* current submission all await one and the same request
SameResult(i) ==
    \A a, b \in 1 .. Len(waiters) :
        (/\ requests[waiters[a].req].text = <<submission, i>>
         /\ requests[waiters[b].req].text = <<submission, i>>)
        => waiters[a].req = waiters[b].req

\* C1: a fetchAudioChunk(i) made while a synthesis request for segment i is
\* still outstanding issues no further request for i, and its caller awaits
\* the same request (hence the same result) as the earlier callers.
C1_DedupSecondCall ==
    [][\A i \in Indexes :
          Outstanding(i) # {} =>
              /\ \A k \in NewCalls : requests'[k].text # <<submission, i>>
              /\ SameResult(i)']_vars

\* C2: in every reachable state at most one synthesis request per segment
\* index of the current submission is outstanding.
C2_AtMostOneOutstanding ==
    \A i \in Indexes : Cardinality(Outstanding(i)) <= 1

\* C3: when a synthesis request for segment i of the current submission
\* succeeds the cache holds an entry for i, and while the cache holds an
\* entry for i it keeps one for the rest of the submission and no step
\* issues another request for index i.
C3_CacheHit ==
    [][/\ \A r \in RequestIds :
             (RequestSettles(r, TRUE) /\ requests[r].text[1] = submission)
             => HasAudio(audioCacheMap', requests[r].index)
       /\ \A i \in Indexes :
             (HasAudio(audioCacheMap, i) /\ submission' = submission)
             => /\ HasAudio(audioCacheMap', i)
                /\ \A k \in NewCalls : requests'[k].index # i]_vars

\* C3 witness: a source halted earlier and a source playing now carry the
\* same audio of the current submission, for which no request is
\* outstanding; the later one was resolved from the cache.
C3_Witness ==
    \E s, t \in 1 .. Len(sources) :
        /\ s < t
        /\ sources[s].audio = sources[t].audio
        /\ sources[s].halted
        /\ sources[t].st = "playing"
        /\ sources[t].audio.text[1] = submission
        /\ audioCacheMap[sources[t].index] = sources[t].audio
        /\ Outstanding(sources[t].index) = {}

\* C4: the ended event of a source on which stop() has been called changes
\* neither the cursor nor the flags, starts no playAudioSequence, starts no
\* source and issues no request.
C4_StaleEndedIgnored ==
    [][\A s \in 1 .. Len(sources), fresh \in FreshStates :
          (SourceEnded(s, fresh) /\ sources[s].halted)
          => /\ UNCHANGED <<currentAudioIndex, isLoadingAudio, isPlayingAudio,
                            requests, waiters, resumers, audioCacheMap,
                            pendingAudioRequests, played>>
             /\ Len(sources') = Len(sources) - 1]_vars

Idle == ~isLoadingAudio /\ ~isPlayingAudio

\* C4 witness: the last click stopped Playing(k) with k short of the last
\* segment (an advance was possible), the ended event of the source it
\* halted has been dispatched, and the cursor is still k.
C4_Witness ==
    /\ stoppedAt # -1
    /\ stoppedAt + 1 < Len(textChunks)
    /\ currentAudioIndex = stoppedAt
    /\ played = <<>>
    /\ sources = <<>>
    /\ activeAudioSource = 0
    /\ Idle

\* the sources whose buffer is sounding
Playing == {s \in 1 .. Len(sources) : sources[s].st = "playing"}

\* the segment text a source plays
Segment(s) == sources[s].audio.text

\* C5: a toggle made while Loading(k) leaves the scheduler Idle with the
\* cursor at k and no buffer started, and while the scheduler is Idle the
\* settlement of a synthesis request or of ctx.resume() starts no buffer and
\* leaves it Idle with the same cursor.
C5_StopWhileLoading ==
    [][/\ ((\E fresh \in FreshStates : ToggleAudioPlayback(fresh))
           /\ isLoadingAudio /\ ~isPlayingAudio)
          => /\ Idle'
             /\ currentAudioIndex' = currentAudioIndex
             /\ Len(sources') = Len(sources)
       /\ (Idle /\ (\/ \E r \in RequestIds : RequestSettles(r, TRUE)
                    \/ ResumeSettles(TRUE)))
          => /\ Idle'
             /\ currentAudioIndex' = currentAudioIndex
             /\ Len(sources') = Len(sources)]_vars

\* C6: at most one source is playing at any time, and it is the one held in
\* activeAudioSourceRef.
C6_SinglePlayback ==
    /\ Cardinality(Playing) <= 1
    /\ \A s \in Playing : activeAudioSource = s

\* C7: no source plays segment i+1 of a text while a source playing
\* segment i of that text has not finished.
C7_InOrderPlayback ==
    \A s, t \in Playing :
        Segment(s)[1] = Segment(t)[1] => Segment(t)[2] # Segment(s)[2] + 1

\* sources have been started since the play button was clicked, each has
\* delivered its ended event, and no playAudioSequence invocation is
\* suspended
RunOver ==
    /\ played # <<>>
    /\ sources = <<>>
    /\ waiters = <<>>
    /\ resumers = <<>>

\* C8: in an uninterrupted run from index 0 the k-th source started plays
\* segment k-1, one source at a time, and when the run is over all N
\* segments have been played, the cursor is 0 and the scheduler is Idle.
C8_FullSequence ==
    /\ \A k \in 1 .. Len(played) : played[k] = k - 1
    /\ Len(sources) <= 1
    /\ \A s \in 1 .. Len(sources) :
          /\ sources[s].index = Len(played) - 1
          /\ Segment(s) = textChunks[sources[s].index + 1]
    /\ RunOver => /\ Len(played) = Len(textChunks)
                  /\ currentAudioIndex = 0
                  /\ Idle

\* C8 witness: a run over three segments is over.
C8_Witness == RunOver /\ Len(textChunks) = 3 /\ played = <<0, 1, 2>>

\* C9: a toggle made while Playing(k) leaves the cursor at k and the
\* scheduler Idle, and the next toggle, if it finds the scheduler Idle,
\* starts playback at k.
C9_ResumeAtCursor ==
    [][(\E fresh \in FreshStates : ToggleAudioPlayback(fresh)) =>
          /\ (isPlayingAudio /\ ~isLoadingAudio) =>
                 currentAudioIndex' = currentAudioIndex /\ Idle'
          /\ (Idle /\ stoppedAt # -1) =>
                 currentAudioIndex' = stoppedAt /\ ~Idle']_vars

\* C10: a submit made while a buffer is playing or loading leaves no source
\* playing, both tables empty, the cursor at 0, no active handle and the
\* scheduler Idle, the segment list being still empty.
C10_SubmitResets ==
    [][(ProcessDream /\ (Playing # {} \/ ~Idle)) =>
          /\ Playing' = {}
          /\ Idle'
          /\ audioCacheMap' = EmptyCache
          /\ pendingAudioRequests' = EmptyPending
          /\ currentAudioIndex' = 0
          /\ activeAudioSource' = 0
          /\ textChunks' = <<>>]_vars

\* the playAudioSequence invocations awaiting request r
Awaiting(r) == {a \in 1 .. Len(waiters) : waiters[a].req = r}

\* C11: when the synthesis of a segment of the current submission fails
\* while a playAudioSequence(k) awaits it, the scheduler is Idle afterwards
\* with the cursor at k, and the step starts no source, issues no request
\* and suspends no further invocation.
C11_CurrentFailureHalts ==
    [][\A r \in RequestIds :
          (/\ RequestSettles(r, FALSE)
           /\ Awaiting(r) # {}
           /\ requests[r].text[1] = submission)
          => /\ Idle'
             /\ \A a \in Awaiting(r) : currentAudioIndex' = waiters[a].index
             /\ Len(sources') = Len(sources)
             /\ NewCalls = {}
             /\ waiters' = SelectSeq(waiters, LAMBDA w : w.req # r)
             /\ resumers' = resumers]_vars

\* the scheduler is Playing(k) and request r is the prefetch of segment k+1
\* of the current submission, awaited by no playAudioSequence invocation
PrefetchOfNext(r) ==
    /\ requests[r].st = "pending"
    /\ requests[r].text[1] = submission
    /\ Awaiting(r) = {}
    /\ isPlayingAudio /\ ~isLoadingAudio
    /\ activeAudioSource > 0
    /\ sources[activeAudioSource].st = "playing"
    /\ sources[activeAudioSource].index = currentAudioIndex
    /\ requests[r].index = currentAudioIndex + 1

\* C12: the failure of the prefetch of segment k+1 while segment k plays
\* changes neither the flags, the cursor, the handle nor any source, and
\* leaves no pending entry for k+1; and when the source of segment k ends
\* as the active handle with k+1 in neither table, a request for segment
\* k+1 is issued and awaited.
C12_PrefetchFailureSwallowed ==
    [][/\ \A r \in RequestIds :
             (PrefetchOfNext(r) /\ RequestSettles(r, FALSE))
             => /\ UNCHANGED <<isPlayingAudio, isLoadingAudio,
                               currentAudioIndex, activeAudioSource, sources,
                               waiters, resumers, audioCacheMap, played>>
                /\ ~HasPending(pendingAudioRequests', requests[r].index)
       /\ \A s \in 1 .. Len(sources), fresh \in FreshStates :
             (/\ SourceEnded(s, fresh)
              /\ activeAudioSource = s
              /\ sources[s].index + 1 < Len(textChunks)
              /\ ~HasAudio(audioCacheMap, sources[s].index + 1)
              /\ ~HasPending(pendingAudioRequests, sources[s].index + 1))
             => \E c \in NewCalls :
                   /\ requests'[c].text = textChunks[sources[s].index + 2]
                   /\ pendingAudioRequests'[sources[s].index + 1] = c
                   /\ waiters' = Append(waiters, [index |-> sources[s].index + 1,
                                                  req |-> c])]_vars

\* C12 witness: segment k is playing as the active handle, the scheduler
\* is Playing(k) and segment k+1 exists but is in neither table: the
\* prefetch issued when segment k started has failed meanwhile.
C12_Witness ==
    /\ isPlayingAudio /\ ~isLoadingAudio
    /\ activeAudioSource > 0
    /\ sources[activeAudioSource].st = "playing"
    /\ sources[activeAudioSource].index = currentAudioIndex
    /\ currentAudioIndex + 1 < Len(textChunks)
    /\ ~HasAudio(audioCacheMap, currentAudioIndex + 1)
    /\ ~HasPending(pendingAudioRequests, currentAudioIndex + 1)

\* C13: when a synthesis request for index i fails, the step leaves no
\* pending entry for i and the cache as it was, every playAudioSequence
\* invocation awaiting the request leaves its await through the catch block
\* (flags cleared, no source started, no request issued) and none stays
\* suspended on it.
C13_FailurePropagates ==
    [][\A r \in RequestIds :
          RequestSettles(r, FALSE)
          => /\ ~HasPending(pendingAudioRequests', requests[r].index)
             /\ audioCacheMap' = audioCacheMap
             /\ waiters' = SelectSeq(waiters, LAMBDA w : w.req # r)
             /\ Len(sources') = Len(sources)
             /\ played' = played
             /\ NewCalls = {}
             /\ Awaiting(r) # {} => Idle']_vars

\* C13 witness: the request for segment 1, issued as the prefetch and then
\* awaited by playAudioSequence(1) after segment 0 ended naturally, has
\* failed: the scheduler is Idle at cursor 1 with segment 1 in neither
\* table, no click having been made since segment 0 started.
C13_Witness ==
    /\ Idle
    /\ currentAudioIndex = 1
    /\ Len(textChunks) > 1
    /\ activeAudioSource = -1
    /\ played = <<0>>
    /\ HasAudio(audioCacheMap, 0)
    /\ ~HasAudio(audioCacheMap, 1)
    /\ ~HasPending(pendingAudioRequests, 1)
    /\ waiters = <<>>
    /\ resumers = <<>>
    /\ sources = <<>>

\* C14: in every reachable state, fetchAudioChunk called with an index at or
\* past the end of the segment list throws, issues no request and leaves the
\* cache and pending tables as they are.
C14_OutOfRangeThrows ==
    \A i \in Indexes :
        i >= Len(textChunks)
        => /\ FetchAudioChunk(Heap, i).kind = "throw"
           /\ FetchAudioChunk(Heap, i).h = Heap

\* a start of segment k was made in the step: its playAudioSequence is
\* suspended on the resume of the context or on the request for k, or has
\* started the source of k
StartMade(k) ==
    \/ resumers' = Append(resumers, k)
    \/ /\ Len(waiters') = Len(waiters) + 1
       /\ waiters'[Len(waiters')].index = k
       /\ SubSeq(waiters', 1, Len(waiters)) = waiters
    \/ /\ Len(sources') = Len(sources) + 1
       /\ sources'[Len(sources')].index = k
       /\ activeAudioSource' = Len(sources')

EndOfList(s) ==
    /\ activeAudioSource = s
    /\ sources[s].index + 1 >= Len(textChunks)

\* C16 (as the code has it): playAudioSequence called with an index at or
\* past the end of the list only rewinds: it clears the playing flag, sets
\* the cursor to 0 and returns, with the loading flag untouched, nothing
\* left awaiting, no request issued and no source started.
C16_EndOfListRewinds ==
    [][\A s \in 1 .. Len(sources), fresh \in FreshStates :
          (SourceEnded(s, fresh) /\ EndOfList(s))
          => /\ ~isPlayingAudio'
             /\ isLoadingAudio' = isLoadingAudio
             /\ currentAudioIndex' = 0
             /\ sources' = RemoveAt(sources, s)
             /\ NewCalls = {}
             /\ UNCHANGED <<waiters, resumers, audioCacheMap,
                            pendingAudioRequests, played>>]_vars

\* C16 (as stated): playAudioSequence called with an index at or past the
\* end of the list enters Loading(0) and resolves segment 0.
C16_RestartFromZero ==
    [][\A s \in 1 .. Len(sources), fresh \in FreshStates :
          (SourceEnded(s, fresh) /\ EndOfList(s) /\ Len(textChunks) > 0)
          => /\ currentAudioIndex' = 0
             /\ isLoadingAudio' \/ isPlayingAudio'
             /\ StartMade(0)]_vars

\* C16 witness: playback was started at the last of two segments, that
\* segment ended naturally and playAudioSequence(2) has returned: nothing is
\* playing, loading or awaiting, and the cursor is 0.
C16_Witness ==
    /\ Len(textChunks) = 2
    /\ played = <<1>>
    /\ activeAudioSource = -1
    /\ Idle
    /\ currentAudioIndex = 0
    /\ sources = <<>>
    /\ waiters = <<>>
    /\ resumers = <<>>

\* the sentences splitTextForTTS cuts its argument into
TextSentences == Sentences(CleanTextForTTS(text))

\* the sentences longer than the limit
LongSentences == {k \in 1 .. Len(TextSentences) : Len(TextSentences[k]) > limit}

\* C17: every segment splitTextForTTS returns is at most limit characters
\* long or is one sentence longer than limit, alone and whole (without the
\* white space around it); and every sentence longer than limit is a segment
\* of its own.
C17_SegmentsWithinLimit ==
    returned =>
        /\ \A i \in 1 .. Len(ttsChunks) :
              \/ Len(ttsChunks[i]) <= limit
              \/ \E k \in LongSentences : ttsChunks[i] = Trim(TextSentences[k])
        /\ \A k \in LongSentences :
              \E i \in 1 .. Len(ttsChunks) : ttsChunks[i] = Trim(TextSentences[k])

\* C17 witness: a text of a short and a long sentence has been split into a
\* segment within the limit and a segment longer than the limit.
C17_Witness ==
    /\ returned
    /\ Len(ttsChunks) = 2
    /\ Len(TextSentences) = 2
    /\ Len(ttsChunks[1]) <= limit
    /\ Len(ttsChunks[2]) > limit

\* a text without its white space
Squeeze(t) == SelectSeq(t, LAMBDA c : c \notin WhiteSpace)

\* the texts of a sequence, one after the other
RECURSIVE Flatten(_)
Flatten(ts) == IF ts = <<>> THEN <<>> ELSE Head(ts) \o Flatten(Tail(ts))

\* C18: the segments splitTextForTTS returns, concatenated in order, are the
\* cleaned text up to white space.
C18_ConcatenationPreserved ==
    returned => Squeeze(Flatten(ttsChunks)) = Squeeze(CleanTextForTTS(text))

\* C19: splitTextForTTS returns no segment for a text of white space only
\* (the empty text included), and never returns a segment that is empty or
\* white space only.
C19_NoEmptySegments ==
    returned =>
        /\ Trim(text) = <<>> => ttsChunks = <<>>
        /\ \A i \in 1 .. Len(ttsChunks) : Trim(ttsChunks[i]) # <<>>

\* C19 witness: a text of two or more white-space characters, not all the
\* same, has been split into no segment.
C19_Witness ==
    /\ returned
    /\ Len(text) >= 2
    /\ \E i, j \in 1 .. Len(text) : text[i] # text[j]
    /\ Trim(text) = <<>>
    /\ ttsChunks = <<>>

\* C20: when the sentences of the text are separated by white space, leave
\* out nothing of the cleaned text and, each with the blank the loop puts
\* after it, fit within limit together, splitTextForTTS returns the cleaned
\* text as its one segment, the sentences separated as they are in it.
C20_OneSegmentAsInInput ==
    (/\ returned
     /\ CleanTextForTTS(text) # <<>>
     /\ Flatten(TextSentences) = CleanTextForTTS(text)
     /\ \A k \in 2 .. Len(TextSentences) : Head(TextSentences[k]) \in WhiteSpace
     /\ Len(CleanTextForTTS(text)) + Len(TextSentences) <= limit)
    => ttsChunks = <<CleanTextForTTS(text)>>

\* no index is in the cache and in the pending table at once
Disjoint ==
    \A i \in Indexes :
        ~(HasAudio(audioCacheMap, i) /\ HasPending(pendingAudioRequests, i))

\* C21: no index is in both tables, before and after every step; the step
\* in which a request for index i succeeds puts i in the cache and takes it
\* out of the pending table; and a request is issued, and entered in the
\* pending table, only for an index that the step found in neither table.
C21_TablesDisjoint ==
    [][/\ Disjoint /\ Disjoint'
       /\ \A r \in RequestIds :
             RequestSettles(r, TRUE)
             => /\ HasAudio(audioCacheMap', requests[r].index)
                /\ ~HasPending(pendingAudioRequests', requests[r].index)
       /\ \A c \in NewCalls :
             /\ pendingAudioRequests'[requests'[c].index] = c
             /\ ~HasAudio(audioCacheMap, requests'[c].index)
             /\ ~HasPending(pendingAudioRequests, requests'[c].index)]_vars

\* C21 witness: the request for index 0 has succeeded while the request for
\* index 1 is outstanding: 0 is in the cache only, 1 in the pending table
\* only.
C21_Witness ==
    /\ HasAudio(audioCacheMap, 0)
    /\ ~HasPending(pendingAudioRequests, 0)
    /\ HasPending(pendingAudioRequests, 1)
    /\ ~HasAudio(audioCacheMap, 1)
    /\ requests[pendingAudioRequests[1]].st = "pending"

\* C22: in every reachable state the pending table holds an entry for
\* index i exactly when a synthesis request for segment i of the current
\* submission is outstanding, and the entry is that request.
C22_PendingIffOutstanding ==
    \A i \in Indexes :
        /\ HasPending(pendingAudioRequests, i) <=> Outstanding(i) # {}
        /\ HasPending(pendingAudioRequests, i)
              => pendingAudioRequests[i] \in Outstanding(i)

\* the step started a source (the last one it started is the registered
\* handle)
SourceStarted ==
    /\ activeAudioSource' > 0
    /\ \/ Len(sources') > Len(sources)
       \/ Len(played') > Len(played)

\* the step is a toggle that finds the scheduler Idle and leaves
\* playAudioSequence(k) suspended at its await of fetchAudioChunk(k)
StartAwaits(k) ==
    /\ \E fresh \in FreshStates : ToggleAudioPlayback(fresh)
    /\ Idle
    /\ Len(waiters') = Len(waiters) + 1
    /\ waiters'[Len(waiters')].index = k

\* C23 (as the code has it): playAudioSequence(k) calls fetchAudioChunk(k+1)
\* only past its await of fetchAudioChunk(k): a start left waiting for the
\* audio of k has issued no request but the one for k, and the step that
\* starts the source of k, with k+1 inside the list, leaves k+1 in the cache
\* or in the pending table.  No request is ever issued for an index outside
\* the list.
C23_PrefetchAfterCurrent ==
    [][/\ \A k \in Indexes :
             StartAwaits(k) => \A c \in NewCalls : requests'[c].index = k
       /\ SourceStarted
             => LET k == sources'[activeAudioSource'].index
                IN k + 1 < Len(textChunks')
                   => \/ HasAudio(audioCacheMap', k + 1)
                      \/ HasPending(pendingAudioRequests', k + 1)
       /\ \A c \in NewCalls :
             /\ requests'[c].index < Len(textChunks')
             /\ requests'[c].text = textChunks'[requests'[c].index + 1]]_vars

\* C23 (as stated): a start of segment k left waiting for the audio of k,
\* with k+1 inside the list, has already called fetchAudioChunk(k+1): k+1 is
\* in the cache or in the pending table.
C23_PrefetchConcurrent ==
    [][\A k \in Indexes :
          (StartAwaits(k) /\ k + 1 < Len(textChunks))
          => \/ HasAudio(audioCacheMap', k + 1)
             \/ HasPending(pendingAudioRequests', k + 1)]_vars

\* C23 witness: the audio of segment 0 has arrived, its source is playing as
\* the registered handle and the request for segment 1, issued in that step,
\* is outstanding; nothing has been requested for segment 2.
C23_Witness ==
    /\ Len(textChunks) = 3
    /\ isPlayingAudio /\ ~isLoadingAudio
    /\ played = <<0>>
    /\ activeAudioSource > 0
    /\ sources[activeAudioSource].index = 0
    /\ sources[activeAudioSource].st = "playing"
    /\ HasPending(pendingAudioRequests, 1)
    /\ requests[pendingAudioRequests[1]].text = textChunks[2]
    /\ ~HasPending(pendingAudioRequests, 2)
    /\ ~HasAudio(audioCacheMap, 2)
    /\ waiters = <<>>

\* the step is a toggle that calls stopAudio
StopStep ==
    /\ \E fresh \in FreshStates : ToggleAudioPlayback(fresh)
    /\ isPlayingAudio \/ isLoadingAudio

\* C24: stopAudio leaves the segment list, the cache, the pending table, the
\* cursor and the requests in flight as they are; and a request of the
\* current submission that succeeds after the scheduler was stopped still
\* puts its audio, that of its segment, into the cache.
C24_StopKeepsTables ==
    [][/\ StopStep
             => UNCHANGED <<textChunks, audioCacheMap, pendingAudioRequests,
                            currentAudioIndex, requests>>
       /\ \A r \in RequestIds :
             (/\ RequestSettles(r, TRUE)
              /\ Idle /\ stoppedAt # -1
              /\ requests[r].text[1] = submission)
             => /\ HasAudio(audioCacheMap', requests[r].index)
                /\ audioCacheMap'[requests[r].index].text
                      = textChunks[requests[r].index + 1]]_vars

\* C24 witness: Playing(0) has been stopped by a toggle, the halted source
\* has not yet reported its end, and the prefetch of segment 1 is still in
\* flight and in the pending table.
C24_Witness ==
    /\ Idle
    /\ stoppedAt = 0
    /\ currentAudioIndex = 0
    /\ activeAudioSource = 0
    /\ Len(sources) = 1
    /\ sources[1].halted
    /\ HasPending(pendingAudioRequests, 1)
    /\ requests[pendingAudioRequests[1]].st = "pending"
    /\ requests[pendingAudioRequests[1]].text = textChunks[2]

\* C25: in every reachable state a second stopAudio right after a first
\* changes nothing; every stopAudio made by a toggle or a submit, whatever
\* the state it finds (nothing registered, a source playing, a source that
\* has already ended), leaves both flags cleared and no handle, the toggle
\* also the cursor as it was; and stopAudio called again on the state it
\* left changes nothing.
C25_StopIdempotent ==
    [][/\ StopAudio(StopAudio(Heap)) = StopAudio(Heap)
       /\ StopStep
             => /\ Idle'
                /\ activeAudioSource' = 0
                /\ currentAudioIndex' = currentAudioIndex
                /\ StopAudio(Heap)' = Heap'
       /\ ProcessDream
             => /\ Idle'
                /\ activeAudioSource' = 0]_vars

\* C25 witness: segment 0 ended naturally, playAudioSequence(1) was left
\* waiting for its audio with the ended source of segment 0 still
\* registered, and a toggle called stopAudio on that source: the scheduler is
\* Idle with no handle and the cursor at 1.
C25_Witness ==
    /\ Idle
    /\ activeAudioSource = 0
    /\ currentAudioIndex = 1
    /\ stoppedAt = -1
    /\ played = <<>>
    /\ sources = <<>>
    /\ resumers = <<>>
    /\ Len(waiters) = 1
    /\ waiters[1].index = 1

\* C26: whenever the scheduler is Idle (neither loading nor playing) no
\* source is registered in activeAudioSourceRef.
C26_IdleHoldsNoHandle ==
    Idle => activeAudioSource = 0

ContextFailure == ContextCreationFails \/ ResumeSettles(FALSE)

\* C28: a step in which creating or resuming the output context fails ends
\* with the scheduler neither loading nor playing, creates no source and
\* leaves the held source as it was, issues no synthesis request, and leaves
\* no invocation waiting for a request or for a resume.
C28_ContextFailureAborts ==
    [][ContextFailure =>
          /\ Idle'
          /\ sources' = sources
          /\ activeAudioSource' = activeAudioSource
          /\ played' = played
          /\ NewCalls = {}
          /\ requests' = requests
          /\ waiters' = waiters
          /\ resumers' = <<>>]_vars

\* C28 witness: the warm-up request failed, the play button was pressed, the
\* new context was suspended and its resume was rejected: nothing is loading
\* or playing, no source exists, and segment 0 has neither audio nor a
\* request.
C28_Witness ==
    /\ Len(textChunks) > 0
    /\ Idle
    /\ playbackAudioCtx = "suspended"
    /\ resumers = <<>>
    /\ waiters = <<>>
    /\ sources = <<>>
    /\ activeAudioSource = 0
    /\ ~HasAudio(audioCacheMap, 0)
    /\ ~HasPending(pendingAudioRequests, 0)
    /\ \A r \in RequestIds : requests[r] = FreeSlot

\* the steps that call fetchAudioChunk: the warm-up of a submission, a start
\* from the play button, a start resumed after ctx.resume(), the
\* continuation of a start after its audio arrived (prefetch), and the start
\* of the next segment from onended
FetchStep ==
    \/ \E n \in 0 .. MaxChunks : AnalysisDone(n)
    \/ \E fresh \in FreshStates : ToggleAudioPlayback(fresh)
    \/ ResumeSettles(TRUE)
    \/ \E r \in RequestIds : RequestSettles(r, TRUE)
    \/ \E s \in 1 .. MaxSources, fresh \in FreshStates : SourceEnded(s, fresh)

\* segment i has neither cached audio nor a pending request
Miss(i) == ~HasAudio(audioCacheMap, i) /\ ~HasPending(pendingAudioRequests, i)

\* C29: synthesis requests are issued only by steps that call
\* fetchAudioChunk, at most one per index and step and only for an index in
\* neither table; a start from the play button on a running context whose
\* segment is in neither table issues exactly one request, for that segment;
\* the step in which a request fails ends that request and neither issues
\* nor changes any other.
C29_NoAutomaticRetry ==
    [][/\ NewCalls # {} => FetchStep
       /\ \A c, d \in NewCalls :
             requests'[c].index = requests'[d].index => c = d
       /\ \A c \in NewCalls : Miss(requests'[c].index)
       /\ \A fresh \in FreshStates :
             /\ ToggleAudioPlayback(fresh)
             /\ Idle
             /\ playbackAudioCtx = "running"
             /\ currentAudioIndex < Len(textChunks)
             /\ Miss(currentAudioIndex)
             => /\ Cardinality(NewCalls) = 1
                /\ \A c \in NewCalls :
                      requests'[c].index = currentAudioIndex
       /\ \A r \in RequestIds :
             RequestSettles(r, FALSE)
             => /\ requests'[r] = FreeSlot
                /\ \A c \in RequestIds \ {r} : requests'[c] = requests[c]]_vars

\* C29 witness: the warm-up request of a submission has failed and the play
\* button was never pressed: the text has segments, no context exists, and
\* segment 0 has neither audio nor a request in flight.
C29_Witness ==
    /\ analysis
    /\ Len(textChunks) > 0
    /\ playbackAudioCtx = "none"
    /\ Idle
    /\ Miss(0)
    /\ \A r \in RequestIds : requests[r] = FreeSlot

\* C30: the unmount cleanup leaves the scheduler stopped with no source held
\* and the context, if there is one, closed; and no step starts a buffer
\* source while the context is closed.
C30_NoBufferOnClosedContext ==
    [][/\ Unmount
          => /\ Idle'
             /\ activeAudioSource' = 0
             /\ playbackAudioCtx' \in {"none", "closed"}
             /\ playbackAudioCtx # "none" => playbackAudioCtx' = "closed"
       /\ SourceStarted => playbackAudioCtx' # "closed"]_vars

\* C31: the step in which the analysis of a submission yields at least one
\* segment issues one synthesis request, for segment 0 of that submission,
\* registers it in the pending table, and starts nothing (flags, cursor,
\* context, sources and suspended invocations as before); when a request for
\* segment 0 that no invocation awaits fails while the scheduler is Idle, the
\* status and the analysis stay as they were, the scheduler stays Idle at its
\* cursor and segment 0 is in neither table; and a press of the play button
\* that finds the scheduler Idle at cursor 0 with segment 0 in neither table
\* and gets a running context issues a request for segment 0 and awaits it.
C31_BackgroundWarmUp ==
    [][/\ \A n \in 1 .. MaxChunks :
             AnalysisDone(n)
             => /\ Cardinality(NewCalls) = 1
                /\ \A c \in NewCalls :
                      /\ requests'[c].index = 0
                      /\ requests'[c].text = <<submission, 0>>
                      /\ pendingAudioRequests'[0] = c
                /\ UNCHANGED <<isPlayingAudio, isLoadingAudio,
                               currentAudioIndex, playbackAudioCtx,
                               activeAudioSource, sources, waiters, resumers,
                               played>>
       /\ \A r \in RequestIds :
             /\ RequestSettles(r, FALSE)
             /\ requests[r].index = 0
             /\ Awaiting(r) = {}
             /\ Idle
             => /\ status' = status
                /\ analysis' = analysis
                /\ Idle'
                /\ currentAudioIndex' = currentAudioIndex
                /\ sources' = sources
                /\ ~HasAudio(audioCacheMap', 0)
                /\ ~HasPending(pendingAudioRequests', 0)
       /\ /\ ToggleAudioPlayback("running")
          /\ Idle
          /\ playbackAudioCtx \in {"none", "running"}
          /\ currentAudioIndex = 0
          /\ Miss(0)
          => \E c \in NewCalls :
                /\ requests'[c].index = 0
                /\ pendingAudioRequests'[0] = c
                /\ \E w \in 1 .. Len(waiters') :
                      waiters'[w] = [index |-> 0, req |-> c]]_vars

\* C33: every entry of the cache is audio synthesized from the segment of
\* its index in the current submission.
C33_CacheOfCurrentSubmission ==
    \A i \in Indexes :
        HasAudio(audioCacheMap, i)
        => audioCacheMap[i].text = <<submission, i>>

\* the else branches the loop of splitTextForTTS takes with a current chunk
\* that is pushed, from the k-th sentence on: the current chunk as
\* accumulated (every sentence followed by a blank) and the sentence that
\* did not fit, which begins the next chunk
RECURSIVE Closings(_, _, _, _)
Closings(sentences, k, currentChunk, lim) ==
    IF k > Len(sentences) THEN <<>>
    ELSE IF Len(currentChunk \o sentences[k]) <= lim
    THEN Closings(sentences, k + 1, currentChunk \o sentences[k] \o <<" ">>,
                  lim)
    ELSE (IF Trim(currentChunk) # <<>>
          THEN <<[chunk |-> currentChunk, next |-> sentences[k]]>>
          ELSE <<>>)
         \o Closings(sentences, k + 1, sentences[k] \o <<" ">>, lim)

\* the segments closed inside the loop of the call made
TextClosings == Closings(TextSentences, 1, <<>>, limit)

C34_NoPlaybackOfPriorText ==
    [][/\ SourceStarted
          => sources'[activeAudioSource'].audio.text[1] = submission'
       /\ \A s \in 1 .. Len(sources), fresh \in FreshStates :
             /\ SourceEnded(s, fresh)
             /\ sources[s].audio.text[1] # submission
             => currentAudioIndex' = currentAudioIndex]_vars

\* C35: isLoadingAudio and isPlayingAudio are never both true.
C35_FlagsExclusive ==
    ~(isLoadingAudio /\ isPlayingAudio)

\* ---- two submissions with stops, failures and fair settlement ----
\* a text is submitted at most twice and has at most two segments; the play
\* button is pressed at any time; every synthesis request in flight is
\* eventually settled, one way or the other

LiveAnalysis == \E n \in 0 .. 2 : AnalysisDone(n)

NextLive ==
    \/ Resubmit
    \/ LiveAnalysis
    \/ AnalysisFailed
    \/ ImageDone
    \/ \E fresh \in FreshStates : ToggleAudioPlayback(fresh)
    \/ \E r \in RequestIds, ok \in BOOLEAN : RequestSettles(r, ok)
    \/ \E ok \in BOOLEAN : ResumeSettles(ok)
    \/ FullFinish
    \/ FullEnded

\* every generateDreamSpeech promise is eventually settled
FairRequests ==
    \A r \in RequestIds : WF_vars(\E ok \in BOOLEAN : RequestSettles(r, ok))

\* every ctx.resume() promise is eventually settled
FairResume == WF_vars(\E ok \in BOOLEAN : ResumeSettles(ok))

SpecLive == Init /\ [][NextLive]_vars /\ FairRequests

C37_ToggleWithoutSegments ==
    [][/\ ~analysis \/ Len(textChunks) = 0
       /\ \E fresh \in FreshStates : ToggleAudioPlayback(fresh)
       => /\ NewCalls = {}
          /\ UNCHANGED <<isPlayingAudio, isLoadingAudio, currentAudioIndex,
                         activeAudioSource, playbackAudioCtx, textChunks,
                         audioCacheMap, pendingAudioRequests, requests,
                         sources, waiters, resumers, played, stoppedAt,
                         status, analysis>>]_vars

\* C37 witness: while the second text is being analysed (no analysis, no
\* segments) a source is playing and isPlayingAudio is set; a press of the
\* play button in this state returns at once.
C37_Witness ==
    /\ status = "ANALYZING"
    /\ ~analysis
    /\ textChunks = <<>>
    /\ isPlayingAudio
    /\ activeAudioSource > 0

\* C38: the text generateDreamSpeech sends for a segment is the segment when
\* the segment has at most SpeechLimit characters and else its first
\* SpeechLimit characters, which is a proper part of it; and when the limit
\* of the split is below SpeechLimit, a segment that is cut is one sentence
\* longer than the limit.
C38_SpeechTextTruncated ==
    speech.chunk # 0 =>
        LET segment == ttsChunks[speech.chunk]
        IN /\ Len(segment) <= SpeechLimit => speech.safeText = segment
           /\ Len(segment) > SpeechLimit
              => /\ Len(speech.safeText) = SpeechLimit
                 /\ \A i \in 1 .. SpeechLimit : speech.safeText[i] = segment[i]
                 /\ speech.safeText # segment
                 /\ limit < SpeechLimit
                    => \E k \in LongSentences :
                          segment = Trim(TextSentences[k])

\* C38 witness: split with a limit below SpeechLimit returned a segment of
\* one sentence longer than SpeechLimit, and the segment was sent to the
\* speech model without its end.
C38_Witness ==
    /\ limit < SpeechLimit
    /\ speech.chunk # 0
    /\ Len(TextSentences) = 1
    /\ Len(ttsChunks[speech.chunk]) > SpeechLimit
    /\ Len(speech.safeText) < Len(ttsChunks[speech.chunk])
====
